---- MODULE Spec2Model ----
(***************************************************************************)
(* Model of src/example.py, the UB CSE Python coding style example, and of *)
(* what the Python interpreter does with it: the file is tokenised line by *)
(* line, compiled to a module code object, and the code object is run in a *)
(* namespace that already holds the variables of the program running it.   *)
(*                                                                         *)
(* The file is modelled character by character.  Lines that are neither    *)
(* blank, nor a comment, nor part of a triple-quoted string are outside    *)
(* the subset of Python that is interpreted exactly; such a statement is   *)
(* over-approximated as one that may raise, rebind any name or do I/O.     *)
(***************************************************************************)
EXTENDS Integers, Sequences, FiniteSets, TLC

VARIABLES pc, lineno, mode, strline, buf, toks, code, ip, stack, ns, ns0, io, exc

vars == <<pc, lineno, mode, strline, buf, toks, code, ip, stack, ns, ns0, io, exc>>

(* ------------------------------ bounds --------------------------------- *)

\* Number of variables the running program holds besides __doc__ and __name__.
MaxVars == 2

\* Integer values those variables may hold: 0 .. MaxInt.
MaxInt == 1

(* --------------------------- the source file --------------------------- *)

\* Line 1 of src/example.py.
AuthorCommentNoEmail ==
  <<"#", " ", "E", "t", "h", "a", "n", " ", "B", "l", "a", "n", "t", "o", "n">>

AuthorComment ==
  <<"#", " ", "E", "t", "h", "a", "n", " ", "B", "l", "a", "n", "t", "o", "n", " ", "<", "e", "b", "l", "a", "n", "t", "o", "n", "@", "b", "u", "f", "f", "a", "l", "o", ".", "e", "d", "u", ">">>

\* Lines 3 to 14 of src/example.py (the file has no newline after line 14).
DocstringLines ==
  << <<"\"", "\"", "\"", "U", "B", " ", "C", "S", "E", " ", "P", "y", "t", "h", "o", "n", " ", "c", "o", "d", "i", "n", "g", " ", "s", "t", "y", "l", "e", " ", "e", "x", "a", "m", "p", "l", "e", ".">>,
     <<>>,
     <<"T", "h", "i", "s", " ", "f", "i", "l", "e", " ", "c", "o", "n", "t", "a", "i", "n", "s", " ", "t", "h", "e", " ", "U", "B", " ", "C", "S", "E", " ", "c", "o", "d", "i", "n", "g", " ", "s", "t", "y", "l", "e", " ", "f", "o", "r", " ", "P", "y", "t", "h", "o", "n", ".", " ", " ", "I", "t", " ", "i", "s", " ", "r", "a", "t", "h", "e", "r">>,
     <<"s", "t", "r", "a", "i", "g", "h", "t", "f", "o", "r", "w", "a", "r", "d", ",", " ", "a", "s", " ", "i", "t", " ", "i", "n", "c", "o", "r", "p", "o", "r", "a", "t", "e", "s", " ", "d", "i", "r", "e", "c", "t", "l", "y">>,
     <<"P", "E", "P", " ", "8", " ", "(", "h", "t", "t", "p", "s", ":", "/", "/", "w", "w", "w", ".", "p", "y", "t", "h", "o", "n", ".", "o", "r", "g", "/", "d", "e", "v", "/", "p", "e", "p", "s", "/", "p", "e", "p", "-", "0", "0", "0", "8", "/", ")", " ", "f", "o", "r", " ", "b", "a", "s", "i", "c", " ", "f", "o", "r", "m", "a", "t", "t", "i", "n", "g">>,
     <<"a", "n", "d", " ", "P", "E", "P", " ", "2", "5", "7", " ", "(", "h", "t", "t", "p", "s", ":", "/", "/", "w", "w", "w", ".", "p", "y", "t", "h", "o", "n", ".", "o", "r", "g", "/", "d", "e", "v", "/", "p", "e", "p", "s", "/", "p", "e", "p", "-", "0", "2", "5", "7", "/", ")", " ", "f", "o", "r">>,
     <<"d", "o", "c", "u", "m", "e", "n", "t", "a", "t", "i", "o", "n", ".", " ", " ", "Y", "o", "u", " ", "s", "h", "o", "u", "l", "d", " ", "r", "e", "a", "d", " ", "a", "n", "d", " ", "u", "n", "d", "e", "r", "s", "t", "a", "n", "d", " ", "t", "h", "o", "s", "e", " ", "d", "o", "c", "u", "m", "e", "n", "t", "s", ".">>,
     <<>>,
     <<"E", "v", "e", "r", "y", " ", "f", "i", "l", "e", " ", "s", "h", "o", "u", "l", "d", " ", "h", "a", "v", "e", " ", "t", "h", "e", " ", "a", "u", "t", "h", "o", "r", " ", "a", "n", "d", " ", "c", "o", "n", "t", "a", "c", "t", " ", "p", "o", "i", "n", "t", " ", "(", "e", ".", "g", ".", ",", " ", "e", "m", "a", "i", "l">>,
     <<"a", "d", "d", "r", "e", "s", "s", ")", " ", "i", "n", " ", "a", " ", "c", "o", "m", "m", "e", "n", "t", " ", "o", "n", " ", "t", "h", "e", " ", "f", "i", "r", "s", "t", " ", "l", "i", "n", "e", ",", " ", "a", "n", "d", " ", "i", "t", "s", " ", "f", "i", "r", "s", "t", " ", "s", "t", "a", "t", "e", "m", "e", "n", "t", " ", "s", "h", "o", "u", "l", "d">>,
     <<"b", "e", " ", "a", " ", "P", "E", "P", " ", "2", "5", "7", " ", "d", "o", "c", " ", "s", "t", "r", "i", "n", "g", " ", "(", "l", "i", "k", "e", " ", "t", "h", "i", "s", " ", "o", "n", "e", ")", " ", "d", "e", "s", "c", "r", "i", "b", "i", "n", "g", " ", "t", "h", "e", " ", "f", "i", "l", "e", " ", "c", "o", "n", "t", "e", "n", "t", "s", ".">>,
     <<"\"", "\"", "\"">> >>

\* The file with its last line (the closing quotes) missing.
SrcLinesUnterminated ==
  <<AuthorComment, <<>>>> \o SubSeq(DocstringLines, 1, Len(DocstringLines) - 1)

\* The file followed by one assignment statement.
SrcLinesWithStatement ==
  <<AuthorComment, <<>>>> \o DocstringLines \o << <<"x", " ", "=", " ", "1">> >>

\* The file with the docstring indented by one space.
SrcLinesIndented ==
  <<AuthorComment, <<>>>>
    \o << <<" ">> \o DocstringLines[1] >> \o Tail(DocstringLines)

\* src/example.py, as the sequence of its lines.
SrcLines ==
  <<AuthorComment, <<>>>> \o DocstringLines

\* The string constant CPython stores in co_consts for the literal of lines 3-14.
DocConst ==
     <<"U", "B", " ", "C", "S", "E", " ", "P", "y", "t", "h", "o", "n", " ", "c", "o", "d", "i", "n", "g", " ", "s", "t", "y", "l", "e", " ", "e", "x", "a", "m", "p", "l", "e", ".", "\n">>
  \o <<"\n">>
  \o <<"T", "h", "i", "s", " ", "f", "i", "l", "e", " ", "c", "o", "n", "t", "a", "i", "n", "s", " ", "t", "h", "e", " ", "U", "B", " ", "C", "S", "E", " ", "c", "o", "d", "i", "n", "g", " ", "s", "t", "y", "l", "e", " ", "f", "o", "r", " ", "P", "y", "t", "h", "o", "n", ".", " ", " ", "I", "t", " ", "i", "s", " ", "r", "a", "t", "h", "e", "r", "\n">>
  \o <<"s", "t", "r", "a", "i", "g", "h", "t", "f", "o", "r", "w", "a", "r", "d", ",", " ", "a", "s", " ", "i", "t", " ", "i", "n", "c", "o", "r", "p", "o", "r", "a", "t", "e", "s", " ", "d", "i", "r", "e", "c", "t", "l", "y", "\n">>
  \o <<"P", "E", "P", " ", "8", " ", "(", "h", "t", "t", "p", "s", ":", "/", "/", "w", "w", "w", ".", "p", "y", "t", "h", "o", "n", ".", "o", "r", "g", "/", "d", "e", "v", "/", "p", "e", "p", "s", "/", "p", "e", "p", "-", "0", "0", "0", "8", "/", ")", " ", "f", "o", "r", " ", "b", "a", "s", "i", "c", " ", "f", "o", "r", "m", "a", "t", "t", "i", "n", "g", "\n">>
  \o <<"a", "n", "d", " ", "P", "E", "P", " ", "2", "5", "7", " ", "(", "h", "t", "t", "p", "s", ":", "/", "/", "w", "w", "w", ".", "p", "y", "t", "h", "o", "n", ".", "o", "r", "g", "/", "d", "e", "v", "/", "p", "e", "p", "s", "/", "p", "e", "p", "-", "0", "2", "5", "7", "/", ")", " ", "f", "o", "r", "\n">>
  \o <<"d", "o", "c", "u", "m", "e", "n", "t", "a", "t", "i", "o", "n", ".", " ", " ", "Y", "o", "u", " ", "s", "h", "o", "u", "l", "d", " ", "r", "e", "a", "d", " ", "a", "n", "d", " ", "u", "n", "d", "e", "r", "s", "t", "a", "n", "d", " ", "t", "h", "o", "s", "e", " ", "d", "o", "c", "u", "m", "e", "n", "t", "s", ".", "\n">>
  \o <<"\n">>
  \o <<"E", "v", "e", "r", "y", " ", "f", "i", "l", "e", " ", "s", "h", "o", "u", "l", "d", " ", "h", "a", "v", "e", " ", "t", "h", "e", " ", "a", "u", "t", "h", "o", "r", " ", "a", "n", "d", " ", "c", "o", "n", "t", "a", "c", "t", " ", "p", "o", "i", "n", "t", " ", "(", "e", ".", "g", ".", ",", " ", "e", "m", "a", "i", "l", "\n">>
  \o <<"a", "d", "d", "r", "e", "s", "s", ")", " ", "i", "n", " ", "a", " ", "c", "o", "m", "m", "e", "n", "t", " ", "o", "n", " ", "t", "h", "e", " ", "f", "i", "r", "s", "t", " ", "l", "i", "n", "e", ",", " ", "a", "n", "d", " ", "i", "t", "s", " ", "f", "i", "r", "s", "t", " ", "s", "t", "a", "t", "e", "m", "e", "n", "t", " ", "s", "h", "o", "u", "l", "d", "\n">>
  \o <<"b", "e", " ", "a", " ", "P", "E", "P", " ", "2", "5", "7", " ", "d", "o", "c", " ", "s", "t", "r", "i", "n", "g", " ", "(", "l", "i", "k", "e", " ", "t", "h", "i", "s", " ", "o", "n", "e", ")", " ", "d", "e", "s", "c", "r", "i", "b", "i", "n", "g", " ", "t", "h", "e", " ", "f", "i", "l", "e", " ", "c", "o", "n", "t", "e", "n", "t", "s", ".", "\n">>

(* ------------------------------- values -------------------------------- *)

\* Python values, as records of one shape.
Unbound == [t |-> "unbound", i |-> 0, s |-> <<>>]
None == [t |-> "None", i |-> 0, s |-> <<>>]
PyInt(k) == [t |-> "int", i |-> k, s |-> <<>>]
PyStr(x) == [t |-> "str", i |-> 0, s |-> x]

DocName == "__doc__"
ModName == "__name__"
UserNames == {"v" \o ToString(k) : k \in 1..MaxVars}
Names == {DocName, ModName} \cup UserNames

\* __name__ when the file is run as a script, and when it is imported.
RunModes == {PyStr(<<"_", "_", "m", "a", "i", "n", "_", "_">>), PyStr(<<"e", "x", "a", "m", "p", "l", "e">>)}

UserValues == {Unbound} \cup {PyInt(k) : k \in 0..MaxInt}

(* ------------------------------ tokeniser ------------------------------ *)

Whitespace == {" ", "\t", "\f"}
Quote == "\""
Backslash == "\\"

\* Index of the first non-whitespace character of a line, 0 when it has none.
FirstNonWs(line) ==
  LET I == {k \in 1..Len(line) : line[k] \notin Whitespace}
  IN IF I = {} THEN 0 ELSE CHOOSE k \in I : \A m \in I : k <= m

IsBlank(line) == FirstNonWs(line) = 0

\* Index at which the first """ of s starts, 0 when s has none.
FindTriple(s) ==
  LET I == {k \in 1..(Len(s) - 2) :
              s[k] = Quote /\ s[k + 1] = Quote /\ s[k + 2] = Quote}
  IN IF I = {} THEN 0 ELSE CHOOSE k \in I : \A m \in I : k <= m

From(s, k) == SubSeq(s, k, Len(s))
Upto(s, k) == SubSeq(s, 1, k)

\* A token: its kind, the lines it starts and ends on, the column it starts at.
Token(kind, line, endline, col, text) ==
  [kind |-> kind, line |-> line, endline |-> endline, col |-> col, text |-> text]

\* The token of a string literal whose body is text and which is followed on
\* its last line by tail: a STRING when nothing follows it and its body needs
\* no escape processing, otherwise part of a statement that is not interpreted.
StringToken(line, endline, text, tail) ==
  IF IsBlank(tail) /\ \A k \in 1..Len(text) : text[k] # Backslash
  THEN Token("STRING", line, endline, 1, text)
  ELSE Token("OTHER", line, endline, 1, text)

\* A line inside a triple-quoted string that does not close it.
ContinueStringNoNewline(b, line) == b \o line

ContinueString(b, line) == b \o line \o <<"\n">>

Init ==
  /\ pc = "lex"
  /\ lineno = 1
  /\ mode = "code"
  /\ strline = 0
  /\ buf = <<>>
  /\ toks = <<>>
  /\ code = <<>>
  /\ ip = 1
  /\ stack = <<>>
  /\ \E m \in RunModes, d \in {Unbound, None}, u \in [UserNames -> UserValues] :
       ns = [n \in Names |->
               IF n = DocName THEN d ELSE IF n = ModName THEN m ELSE u[n]]
  /\ ns0 = ns
  /\ io = <<>>
  /\ exc = "none"

\* The tokeniser reads one line while outside a string.
LexCodeLine ==
  /\ pc = "lex"
  /\ mode = "code"
  /\ lineno <= Len(SrcLines)
  /\ LET line == SrcLines[lineno]
         f == FirstNonWs(line)
         rest == From(line, 4)
         j == FindTriple(rest)
     IN CASE f = 0 ->
               /\ lineno' = lineno + 1
               /\ UNCHANGED <<pc, mode, strline, buf, toks, exc>>
          [] f > 0 /\ line[f] = "#" ->
               /\ toks' = Append(toks, Token("COMMENT", lineno, lineno, f, From(line, f)))
               /\ lineno' = lineno + 1
               /\ UNCHANGED <<pc, mode, strline, buf, exc>>
          [] f > 1 /\ line[f] # "#" ->
               /\ pc' = "error"
               /\ exc' = "IndentationError"
               /\ UNCHANGED <<lineno, mode, strline, buf, toks>>
          [] f = 1 /\ line[f] # "#" /\ FindTriple(line) = 1 /\ j = 0 ->
               /\ mode' = "str"
               /\ strline' = lineno
               /\ buf' = ContinueString(<<>>, rest)
               /\ lineno' = lineno + 1
               /\ UNCHANGED <<pc, toks, exc>>
          [] f = 1 /\ line[f] # "#" /\ FindTriple(line) = 1 /\ j > 0 ->
               /\ toks' = Append(toks,
                            StringToken(lineno, lineno, Upto(rest, j - 1), From(rest, j + 3)))
               /\ lineno' = lineno + 1
               /\ UNCHANGED <<pc, mode, strline, buf, exc>>
          [] OTHER ->
               /\ toks' = Append(toks, Token("OTHER", lineno, lineno, f, line))
               /\ lineno' = lineno + 1
               /\ UNCHANGED <<pc, mode, strline, buf, exc>>
  /\ UNCHANGED <<code, ip, stack, ns, ns0, io>>

\* The tokeniser reads one line while inside a triple-quoted string.
LexStringLine ==
  /\ pc = "lex"
  /\ mode = "str"
  /\ lineno <= Len(SrcLines)
  /\ LET line == SrcLines[lineno]
         j == FindTriple(line)
     IN IF j = 0
        THEN /\ buf' = ContinueString(buf, line)
             /\ UNCHANGED <<mode, strline, toks>>
        ELSE /\ toks' = Append(toks,
                          StringToken(strline, lineno, buf \o Upto(line, j - 1),
                                      From(line, j + 3)))
             /\ mode' = "code"
             /\ strline' = 0
             /\ buf' = <<>>
  /\ lineno' = lineno + 1
  /\ UNCHANGED <<pc, code, ip, stack, ns, ns0, io, exc>>

\* The tokeniser reaches the end of the file.
LexEOF ==
  /\ pc = "lex"
  /\ lineno = Len(SrcLines) + 1
  /\ IF mode = "str"
     THEN /\ pc' = "error"
          /\ exc' = "SyntaxError"
     ELSE /\ pc' = "compile"
          /\ UNCHANGED exc
  /\ UNCHANGED <<lineno, mode, strline, buf, toks, code, ip, stack, ns, ns0, io>>

(* ------------------------------ compiler ------------------------------- *)

Instr(op, name, arg) == [op |-> op, name |-> name, arg |-> arg]

\* The statements of a token stream: every token that is not a comment.
Statements(ts) == SelectSeq(ts, LAMBDA t : t.kind # "COMMENT")

\* A string statement that opens the module is its docstring.
HasDocstring(ts) ==
  Statements(ts) # <<>> /\ Statements(ts)[1].kind = "STRING"

\* The module code object.  The docstring is stored under __doc__; any other
\* constant expression statement is dropped; a statement that is not
\* interpreted becomes one OTHER instruction.
ModuleCode(ts) ==
  LET others == SelectSeq(Statements(ts), LAMBDA t : t.kind = "OTHER")
  IN <<Instr("RESUME", "", None)>>
     \o (IF HasDocstring(ts)
         THEN <<Instr("LOAD_CONST", "", PyStr(Statements(ts)[1].text)),
                Instr("STORE_NAME", DocName, None)>>
         ELSE <<>>)
     \o [k \in 1..Len(others) |-> Instr("OTHER", "", None)]
     \o <<Instr("LOAD_CONST", "", None), Instr("RETURN_VALUE", "", None)>>

Compile ==
  /\ pc = "compile"
  /\ code' = ModuleCode(toks)
  /\ ip' = 1
  /\ pc' = "exec"
  /\ UNCHANGED <<lineno, mode, strline, buf, toks, stack, ns, ns0, io, exc>>

(* ----------------------------- interpreter ----------------------------- *)

Outcome(p, i, st, n, o, e) ==
  [pc |-> p, ip |-> i, stack |-> st, ns |-> n, io |-> o, exc |-> e]

Pop(st) == SubSeq(st, 1, Len(st) - 1)
Top(st) == st[Len(st)]

\* The outcomes of running one instruction.
Effects(ins) ==
  CASE ins.op = "RESUME" ->
         {Outcome("exec", ip + 1, stack, ns, io, exc)}
    [] ins.op = "LOAD_CONST" ->
         {Outcome("exec", ip + 1, Append(stack, ins.arg), ns, io, exc)}
    [] ins.op = "STORE_NAME" ->
         {Outcome("exec", ip + 1, Pop(stack),
                  [ns EXCEPT ![ins.name] = Top(stack)], io, exc)}
    [] ins.op = "RETURN_VALUE" ->
         {Outcome("done", ip, Pop(stack), ns, io, exc)}
    [] OTHER ->
         {Outcome("error", ip, stack, ns, io, "Exception")}
           \cup {Outcome("exec", ip + 1, stack, [ns EXCEPT ![n] = v], io, exc) :
                   n \in Names, v \in UserValues \cup {None}}
           \cup {Outcome("exec", ip + 1, stack, ns, Append(io, d), exc) :
                   d \in {"read", "write"}}

\* The evaluation loop runs the instruction at ip.
EvalFrame ==
  /\ pc = "exec"
  /\ ip <= Len(code)
  /\ \E r \in Effects(code[ip]) :
       /\ pc' = r.pc
       /\ ip' = r.ip
       /\ stack' = r.stack
       /\ ns' = r.ns
       /\ io' = r.io
       /\ exc' = r.exc
  /\ UNCHANGED <<lineno, mode, strline, buf, toks, code, ns0>>

Next ==
  \/ LexCodeLine
  \/ LexStringLine
  \/ LexEOF
  \/ Compile
  \/ EvalFrame

Spec == Init /\ [][Next]_vars

\* The interpreter keeps running while it has a step to take.
FairSpec == Spec /\ WF_vars(Next)

(* ------------------------------ properties ----------------------------- *)

Lexed == pc \in {"compile", "exec", "done"}

\* C1: running the file changes no variable of the program except the
\* module's __doc__ binding: every other name keeps the value (or the
\* absence of a value) it had before, and nothing is read or written.
C1_FrameUnchanged ==
  /\ \A n \in Names \ {DocName} : ns[n] = ns0[n]
  /\ io = <<>>

\* The module has run to its end in a program holding a bound and an unbound
\* variable, and its __doc__ binding is the one thing that changed.
C1_Witness ==
  /\ pc = "done"
  /\ ns[DocName] # ns0[DocName]
  /\ \E n \in UserNames : ns0[n] # Unbound
  /\ \E n \in UserNames : ns0[n] = Unbound

\* C2: no step of tokenising, compiling or running the file fails: the
\* error state is never reached and no exception is ever raised.
C2_NoError ==
  pc # "error" /\ exc = "none"

\* The whole file was read, compiled and run, and no exception is pending.
C2_Witness ==
  /\ pc = "done"
  /\ lineno = Len(SrcLines) + 1
  /\ mode = "code"
  /\ exc = "none"

\* The instructions that neither branch, loop nor wait.
StraightLineOps == {"RESUME", "LOAD_CONST", "STORE_NAME", "RETURN_VALUE"}

\* C3: the module is one statement, the docstring, run in a straight line:
\* its code holds no branch, loop or wait, the tokeniser and the instruction
\* pointer only ever move forward, and every execution reaches the end.
C3_Terminates ==
  /\ <>(pc = "done")
  /\ [][lineno' >= lineno /\ ip' >= ip]_vars
  /\ [](pc \in {"exec", "done"} =>
          /\ Len(Statements(toks)) = 1
          /\ HasDocstring(toks)
          /\ \A k \in 1..Len(code) : code[k].op \in StraightLineOps)

\* The evaluation loop has returned from the last instruction of the module.
C3_Witness ==
  /\ pc = "done"
  /\ ip = Len(code)
  /\ stack = <<>>

\* A comment text that names an author and then a contact point <user@host>.
AuthorAndContact(text) ==
  \E a, at, b \in 1..Len(text) :
    /\ text[a] = "<" /\ text[at] = "@" /\ text[b] = ">"
    /\ a + 1 < at /\ at + 1 < b
    /\ \A k \in (a + 1)..(b - 1) : text[k] \notin Whitespace \cup {"<", ">"}
    /\ \E k \in (at + 1)..(b - 1) : text[k] = "."
    /\ \E k \in 2..(a - 1) : text[k] \notin Whitespace \cup {"#"}

\* C4: the file follows the convention its docstring states: its first line
\* is a comment naming the author and an email address, its first statement
\* is a docstring, and the file holds nothing but that comment and that
\* docstring (every other line is blank).
C4_FollowsConvention ==
  Lexed =>
    /\ Len(toks) = 2
    /\ toks[1].kind = "COMMENT" /\ toks[1].line = 1 /\ toks[1].col = 1
    /\ AuthorAndContact(toks[1].text)
    /\ toks[2].kind = "STRING" /\ toks[2].text # <<>>
    /\ HasDocstring(toks)
    /\ \A k \in 1..Len(SrcLines) :
         \/ k = toks[1].line
         \/ k \in toks[2].line..toks[2].endline
         \/ IsBlank(SrcLines[k])

\* The tokeniser has finished the file and handed its tokens to the compiler.
C4_Witness ==
  /\ pc = "compile"
  /\ Len(toks) = 2
  /\ toks[2].endline = Len(SrcLines)

\* C5: the module has no mutable state: __doc__ only ever holds the value it
\* had before the run or the one constant string of the file, it holds that
\* constant once the module has run, whatever the program and however the
\* file was run, and the module then offers no operation that could change it.
C5_DocstringConstant ==
  /\ ns[DocName] \in {ns0[DocName], PyStr(DocConst)}
  /\ pc = "done" => ns[DocName] = PyStr(DocConst) /\ ~ENABLED Next

\* The module has run where __doc__ was None before, and now holds the constant.
C5_Witness ==
  /\ pc = "done"
  /\ ns0[DocName] = None
  /\ ns[DocName] = PyStr(DocConst)

====
